---- MODULE Spec2Model ----
(***************************************************************************)
(* A model of seer's worklist scheduler (src/executor.rs, Executor::run)   *)
(* and of the value casts it reaches through a step (src/cast.rs).         *)
(*                                                                         *)
(* An evaluation context (EvalContext) is a record                         *)
(*   ticket : ghost, the position of the push that put it in the queue     *)
(*   block  : the basic block it resumes at                                *)
(*   cons   : memory.constraints, the sequence of pushed constraints       *)
(*   mem    : the value stored in the local an outcome's set_lvalue names  *)
(*   root   : the length of memory.root_abstract_alloc, 0 when it is None  *)
(*   rootlive : the root allocation is live                                *)
(*   heap   : the number of live allocations other than the root           *)
(***************************************************************************)
EXTENDS Integers, Sequences, FiniteSets, TLC

VARIABLES queue, pc, mode, calls, enq, deq, last, op

vars == <<queue, pc, mode, calls, enq, deq, last, op>>

\* ---------------------------------------------------------------- bounds
MaxSteps == 4
MaxBranches == 2
MaxCons == 2
MaxVaryBytes == 2

\* ------------------------------------------------------------- constants
HACK_ABSTRACT_ALLOC_LEN == 21

Lvalues == {"local", "dangling"}
None == [some |-> FALSE, lvalue |-> "local", prim |-> 0]
SetLvalues == {None} \cup [some : {TRUE}, lvalue : Lvalues, prim : {7}]

\* A constraint of the store: a path condition pushed by the scheduler
\* (kind "path", named by id) or the ternary-select relation of a cast
\* (kind "ite": result = if cond then then_val else else_val).
PathConstraint(id) ==
    [kind |-> "path", id |-> id, cond |-> <<>>, then_val |-> <<>>, else_val |-> <<>>,
     result |-> <<>>]

\* The constraints of the outcome that resumes at block g: n distinct
\* constraints, tagged by g so that sibling outcomes carry different ones.
OutcomeConstraints(g, n) == [k \in 1..n |-> PathConstraint(10 * g + k)]

\* FinishStep { constraints, goto_block, set_lvalue }
FinishStep(g, n, s) ==
    [constraints |-> OutcomeConstraints(g, n), goto_block |-> g, set_lvalue |-> s]

\* The forks a step can return: no outcome; one outcome with any number of
\* constraints and any accompanying value; k >= 2 outcomes of one constraint
\* each and no value (a switch over a symbolic discriminant). Outcome i
\* resumes at block i: the targets of one terminator are distinct blocks.
Forks ==
    { <<>> }
    \cup { <<FinishStep(1, n, s)>> : n \in 0..MaxCons, s \in SetLvalues }
    \cup { [i \in 1..k |-> FinishStep(i, 1, None)] : k \in 2..MaxBranches }

NoEcx == [ticket |-> 0, block |-> 0, cons |-> <<>>, mem |-> 0, root |-> 0,
          rootlive |-> FALSE, heap |-> 0]

\* ------------------------------------------------------ EvalContext steps
\* push_constraint putting the new constraint first
push_constraint_front(cx, constraint) == [cx EXCEPT !.cons = <<constraint>> \o @]

\* cx.memory.constraints.push_constraint(constraint)
push_constraint(cx, constraint) == [cx EXCEPT !.cons = Append(@, constraint)]

\* cx.goto_block(goto_block)
goto_block(cx, target) == [cx EXCEPT !.block = target]

\* cx.write_primval(lvalue, prim, ty): Ok with the value stored, or Err
write_primval(cx, lvalue, prim) ==
    IF lvalue = "local"
      THEN [ok |-> TRUE, cx |-> [cx EXCEPT !.mem = prim]]
      ELSE [ok |-> FALSE, cx |-> cx]


\* ------------------------------------------------------------ PrimVal
\* A PrimVal is [tag, data]:
\*   Bytes(u128)     data = the 16 bytes of the u128, least significant first
\*   Abstract(cells) data = the cells: b >= 0 is SByte::Concrete(b), a negative
\*                   number names a symbolic byte
\*   Ptr(ptr)        data = <<allocation, offset>>
\*   Undef           data = <<>>
Bytes(b) == [tag |-> "Bytes", data |-> b]
Abstract(sbytes) == [tag |-> "Abstract", data |-> sbytes]
Ptr(alloc, offset) == [tag |-> "Ptr", data |-> <<alloc, offset>>]
Undef == [tag |-> "Undef", data |-> <<>>]

U128Bytes == 16
PointerBytes == 8

\* the u128 of a small number: PrimVal::Bytes(1), PrimVal::Bytes(0)
U128(n) == [i \in 1..U128Bytes |-> IF i = 1 THEN n % 256 ELSE IF i = 2 THEN n \div 256 ELSE 0]

IntTys == {"i8", "i16", "i32", "i64", "i128", "isize"}
UintTys == {"u8", "u16", "u32", "u64", "u128", "usize"}
FloatTys == {"f32", "f64"}
\* the types a cast is asked for: the primitive ones and, for the rest, a tuple
Tys == IntTys \cup UintTys \cup FloatTys \cup {"bool", "char", "rawptr", "fnptr", "tuple"}

\* EvalContext::ty_to_primval_kind, "" for Err(TypeNotPrimitive); isize and
\* usize are the target's pointer-sized kinds.
ty_to_primval_kind(ty) ==
    CASE ty = "i8" -> "I8" [] ty = "i16" -> "I16" [] ty = "i32" -> "I32"
      [] ty = "i64" -> "I64" [] ty = "i128" -> "I128" [] ty = "isize" -> "I64"
      [] ty = "u8" -> "U8" [] ty = "u16" -> "U16" [] ty = "u32" -> "U32"
      [] ty = "u64" -> "U64" [] ty = "u128" -> "U128" [] ty = "usize" -> "U64"
      [] ty = "f32" -> "F32" [] ty = "f64" -> "F64"
      [] ty = "bool" -> "Bool" [] ty = "char" -> "Char"
      [] ty = "rawptr" -> "Ptr" [] ty = "fnptr" -> "FnPtr"
      [] OTHER -> ""

\* PrimValKind::is_int
is_int(kind) ==
    kind \in {"I8", "I16", "I32", "I64", "I128", "U8", "U16", "U32", "U64", "U128"}

\* PrimValKind::num_bytes
num_bytes(kind) ==
    CASE kind \in {"I8", "U8", "Bool"} -> 1
      [] kind \in {"I16", "U16"} -> 2
      [] kind \in {"I32", "U32", "Char", "F32"} -> 4
      [] kind \in {"I64", "U64", "F64"} -> 8
      [] kind \in {"I128", "U128"} -> 16
      [] OTHER -> PointerBytes

\* ------------------------------------------------------------ cast.rs
\* `v as iN as u128`: the low w bytes of v, sign-extended to 128 bits
SignExtend(v, w) ==
    [i \in 1..U128Bytes |-> IF i <= w THEN v[i] ELSE IF v[w] >= 128 THEN 255 ELSE 0]

\* `v as uN as u128`: the low w bytes of v, zero-extended
ZeroExtend(v, w) == [i \in 1..U128Bytes |-> IF i <= w THEN v[i] ELSE 0]

\* int_to_int widening with zeros (`as uN as u128`)
int_to_int_zero_extended(v, ty) ==
    CASE ty = "i8" -> ZeroExtend(v, 1)
      [] ty = "i16" -> ZeroExtend(v, 2)
      [] ty = "i32" -> ZeroExtend(v, 4)
      [] ty = "i64" -> ZeroExtend(v, 8)
      [] ty = "i128" -> v
      [] ty = "isize" -> ZeroExtend(v, PointerBytes)

\* fn int_to_int(&self, v: i128, ty: IntTy) -> u128
int_to_int(v, ty) ==
    CASE ty = "i8" -> SignExtend(v, 1)
      [] ty = "i16" -> SignExtend(v, 2)
      [] ty = "i32" -> SignExtend(v, 4)
      [] ty = "i64" -> SignExtend(v, 8)
      [] ty = "i128" -> v
      [] ty = "isize" -> SignExtend(v, PointerBytes)

\* fn int_to_uint(&self, v: u128, ty: UintTy) -> u128
int_to_uint(v, ty) ==
    CASE ty = "u8" -> ZeroExtend(v, 1)
      [] ty = "u16" -> ZeroExtend(v, 2)
      [] ty = "u32" -> ZeroExtend(v, 4)
      [] ty = "u64" -> ZeroExtend(v, 8)
      [] ty = "u128" -> v
      [] ty = "usize" -> ZeroExtend(v, PointerBytes)

\* self.memory.truncate_to_ptr(v).0 as u128
truncate_to_ptr(v) == ZeroExtend(v, PointerBytes)

\* The bits of a u128, least significant first.
BitsOf(v) == [i \in 1..(8 * Len(v)) |-> (v[((i - 1) \div 8) + 1] \div (2 ^ ((i - 1) % 8))) % 2]
BytesOf(bits) ==
    [i \in 1..U128Bytes |->
        IF 8 * i <= Len(bits)
          THEN bits[8*i-7] + 2 * bits[8*i-6] + 4 * bits[8*i-5] + 8 * bits[8*i-4]
               + 16 * bits[8*i-3] + 32 * bits[8*i-2] + 64 * bits[8*i-1] + 128 * bits[8*i]
          ELSE 0]
Ones(bits) == { i \in 1..Len(bits) : bits[i] = 1 }
Zeros(bits) == { i \in 1..Len(bits) : bits[i] = 0 }
Lowest(S) == CHOOSE i \in S : \A j \in S : i <= j
Highest(S) == CHOOSE i \in S : \A j \in S : i >= j
\* two's complement negation of a non-zero bit pattern
Negate(bits) ==
    [i \in 1..Len(bits) |-> IF i <= Lowest(Ones(bits)) THEN bits[i] ELSE 1 - bits[i]]

\* Single::from_u128 / from_i128 and Double::from_u128 / from_i128, to_bits():
\* the IEEE-754 pattern (mbits of mantissa, ebits of exponent, bias) of the
\* integer whose magnitude is mag, rounded to nearest, ties to even.
FloatBits(mag, negative, mbits, ebits, bias) ==
    IF Ones(mag) = {} THEN [i \in 1..U128Bytes |-> 0]
    ELSE LET msb == Highest(Ones(mag))
             at(p) == IF p >= 1 THEN mag[p] ELSE 0
             mant == [j \in 1..mbits |-> at(msb - mbits - 1 + j)]
             guard == at(msb - mbits - 1)
             sticky == \E p \in 1..(msb - mbits - 2) : mag[p] = 1
             up == guard = 1 /\ (sticky \/ mant[1] = 1)
             carry == up /\ Zeros(mant) = {}
             rounded == IF ~up THEN mant
                        ELSE IF carry THEN [j \in 1..mbits |-> 0]
                        ELSE [j \in 1..mbits |->
                                IF j < Lowest(Zeros(mant)) THEN 0
                                ELSE IF j = Lowest(Zeros(mant)) THEN 1 ELSE mant[j]]
             exp == (msb - 1) + bias + (IF carry THEN 1 ELSE 0)
             inf == exp >= 2 * bias + 1
             expbits == [j \in 1..ebits |->
                           IF inf THEN 1 ELSE (exp \div (2 ^ (j - 1))) % 2]
             mantbits == IF inf THEN [j \in 1..mbits |-> 0] ELSE rounded
         IN  BytesOf(mantbits \o expbits \o <<IF negative THEN 1 ELSE 0>>)

\* The result of a cast: res is "Ok" with the value val, "Err" with the error
\* err and what the error carries arg, or "Panic".
Ok(val) == [res |-> "Ok", val |-> val, err |-> "", arg |-> <<>>]
Err(err, arg) == [res |-> "Err", val |-> Undef, err |-> err, arg |-> arg]
Panic == [res |-> "Panic", val |-> Undef, err |-> "", arg |-> <<>>]

\* the guard of the TyChar arm taking every 32-bit value
fits_char_u32(v) == ZeroExtend(v, 4) = v

\* `v as u8 as u128 == v`
fits_char(v) == ZeroExtend(v, 1) = v

\* fn cast_from_int(&self, v: u128, ty, negative: bool) -> EvalResult<PrimVal>
cast_from_int(v, ty, negative) ==
    CASE ty \in IntTys -> Ok(Bytes(int_to_int(v, ty)))
      [] ty \in UintTys -> Ok(Bytes(int_to_uint(v, ty)))
      [] ty = "f32" /\ negative -> Ok(Bytes(FloatBits(Negate(BitsOf(v)), TRUE, 23, 8, 127)))
      [] ty = "f64" /\ negative -> Ok(Bytes(FloatBits(Negate(BitsOf(v)), TRUE, 52, 11, 1023)))
      [] ty = "f32" /\ ~negative -> Ok(Bytes(FloatBits(BitsOf(v), FALSE, 23, 8, 127)))
      [] ty = "f64" /\ ~negative -> Ok(Bytes(FloatBits(BitsOf(v), FALSE, 52, 11, 1023)))
      [] ty = "char" /\ fits_char(v) -> Ok(Bytes(v))
      [] ty = "char" /\ ~fits_char(v) -> Err("InvalidChar", v)
      [] ty = "rawptr" -> Ok(Bytes(truncate_to_ptr(v)))
      [] OTHER -> Err("Unimplemented", "int to " \o ty \o " cast")

\* fn cast_from_signed_int(&self, val: i128, ty) -> EvalResult<PrimVal>
cast_from_signed_int(val, ty) == cast_from_int(val, ty, val[U128Bytes] >= 128)

\* cast_from_ptr reading the pointer's offset for the pointer-sized integers
cast_from_ptr_offset(ptr, ty) ==
    CASE ty = "rawptr" -> Ok(ptr)
      [] ty \in {"isize", "usize"} -> Ok(Bytes(U128(ptr.data[2])))
      [] ty \in (IntTys \cup UintTys) \ {"isize", "usize"} -> Err("ReadPointerAsBytes", <<>>)
      [] OTHER -> Err("Unimplemented", "ptr to " \o ty \o " cast")

\* fn cast_from_ptr(&self, ptr: MemoryPointer, ty) -> EvalResult<PrimVal>
cast_from_ptr(ptr, ty) ==
    CASE ty \in {"rawptr", "isize", "usize"} -> Ok(ptr)
      [] ty \in (IntTys \cup UintTys) \ {"isize", "usize"} -> Err("ReadPointerAsBytes", <<>>)
      [] OTHER -> Err("Unimplemented", "ptr to " \o ty \o " cast")

\* the cell naming byte j of the value the store derived as its id-th constraint
DerivedCell(id, j) == 0 - (100 * id + j)
\* the cell naming byte i of the root symbolic input
InputCell(i) == 0 - i

\* memory.constraints.add_if_then_else(cond, kind, then_val, else_val): records
\* the relation result = if cond then then_val else else_val and returns the
\* value it defines, an Abstract of the kind's width.
add_if_then_else(cons, cond, kind, then_val, else_val) ==
    LET id == Len(cons) + 1
        result == [j \in 1..num_bytes(kind) |-> DerivedCell(id, j)]
    IN  [cons |-> Append(cons, [kind |-> "ite", id |-> id, cond |-> cond.data,
                                then_val |-> then_val.data, else_val |-> else_val.data,
                                result |-> result]),
         val |-> Abstract(result)]

\* the bool arm with the two constants exchanged
cast_bool_to_int_swapped(cons, val, dest_kind) ==
    add_if_then_else(cons, val, dest_kind, Bytes(U128(0)), Bytes(U128(1)))

\* `src_kind == Bool && dest_kind.is_int()`: the cast asked of the store
cast_bool_to_int(cons, val, dest_kind) ==
    add_if_then_else(cons, val, dest_kind, Bytes(U128(1)), Bytes(U128(0)))

\* pub(super) fn cast_primval(&mut self, val, src_ty, dest_ty) -> EvalResult<PrimVal>
\* on a context whose constraint store holds cons. A panic is unimplemented!()
\* or an index past the cells; cons is the store afterwards.
cast_primval(cons, val, src_ty, dest_ty) ==
    LET src_kind == ty_to_primval_kind(src_ty)
        dest_kind == ty_to_primval_kind(dest_ty)
        with(r) == [res |-> r.res, val |-> r.val, err |-> r.err, arg |-> r.arg,
                    cons |-> cons]
        not_primitive(ty) == with(Err("TypeNotPrimitive", ty))
    IN  IF src_kind = "" THEN not_primitive(src_ty)
        ELSE CASE val.tag = "Abstract" ->
                    IF dest_kind = "" THEN not_primitive(dest_ty)
                    ELSE IF (is_int(src_kind) \/ src_kind = "Char")
                            /\ (is_int(dest_kind) \/ dest_kind = "Char")
                      THEN LET src_size == num_bytes(src_kind)
                               dest_size == num_bytes(dest_kind)
                           IN  IF dest_size < src_size /\ src_size > Len(val.data)
                                 THEN with(Panic)
                                 ELSE with(Ok(Abstract(
                                          [i \in 1..Len(val.data) |->
                                             IF dest_size < i /\ i <= src_size
                                               THEN 0 ELSE val.data[i]])))
                    ELSE IF src_kind = "Bool" /\ is_int(dest_kind)
                      THEN LET ite == cast_bool_to_int(cons, val, dest_kind)
                           IN  [res |-> "Ok", val |-> ite.val, err |-> "", arg |-> <<>>,
                                cons |-> ite.cons]
                    ELSE with(Panic)
               [] val.tag = "Undef" -> with(Ok(Undef))
               [] val.tag = "Ptr" -> with(cast_from_ptr(val, dest_ty))
               [] val.tag = "Bytes" ->
                    CASE src_kind \in {"F32", "F64"} -> with(Panic)
                      [] src_kind \in {"I8", "I16", "I32", "I64", "I128"} ->
                            with(cast_from_signed_int(val.data, dest_ty))
                      [] OTHER -> with(cast_from_int(val.data, dest_ty, FALSE))

\* ------------------------------------------------------------- Executor
\* An Executor is [queue, enq]: the VecDeque and, ghost, the number of pushes.

\* push_eval_context pushing at the head instead (push_front)
push_eval_context_front(self, ecx) ==
    [queue |-> <<[ecx EXCEPT !.ticket = self.enq + 1]>> \o self.queue,
     enq |-> self.enq + 1]

\* self.queue.push_back(ecx)
push_eval_context(self, ecx) ==
    [queue |-> Append(self.queue, [ecx EXCEPT !.ticket = self.enq + 1]),
     enq |-> self.enq + 1]

\* self.queue.pop_front()
pop_eval_context(self) ==
    [self |-> [self EXCEPT !.queue = Tail(@)], ecx |-> Head(self.queue)]

\* The body of `for constraint in constraints { ... }` for one outcome: for
\* each constraint the push, then the write of set_lvalue (a failed write is
\* unimplemented!(), a panic), then goto_block. acc counts what was done.
RECURSIVE ApplyConstraints(_, _, _, _)
ApplyConstraints(acc, constraints, target, set_lvalue) ==
    IF constraints = <<>> \/ acc.panicked THEN acc
    ELSE LET pushed == push_constraint(acc.cx, Head(constraints))
             wrote == IF set_lvalue.some
                        THEN write_primval(pushed, set_lvalue.lvalue, set_lvalue.prim)
                        ELSE [ok |-> TRUE, cx |-> pushed]
         IN  IF ~wrote.ok
               THEN [acc EXCEPT !.cx = pushed, !.pushes = @ + 1, !.panicked = TRUE]
               ELSE ApplyConstraints(
                      [cx |-> goto_block(wrote.cx, target),
                       pushes |-> acc.pushes + 1,
                       writes |-> acc.writes + (IF set_lvalue.some THEN 1 ELSE 0),
                       gotos |-> acc.gotos + 1,
                       panicked |-> FALSE],
                      Tail(constraints), target, set_lvalue)

\* One iteration of `for (mut cx, finish_step) in iter`, before the push.
ApplyOutcome(ecx, finish_step) ==
    ApplyConstraints([cx |-> ecx, pushes |-> 0, writes |-> 0, gotos |-> 0,
                      panicked |-> FALSE],
                     finish_step.constraints, finish_step.goto_block,
                     finish_step.set_lvalue)

\* the loop applying every outcome to the one context, not to a clone of it
RECURSIVE ForkLoopShared(_, _, _, _)
ForkLoopShared(acc, ecx, branches, i) ==
    IF i > Len(branches) \/ acc.panicked THEN acc
    ELSE LET r == ApplyOutcome(ecx, branches[i])
         IN  ForkLoopShared(
               [self |-> IF r.panicked THEN acc.self
                         ELSE push_eval_context(acc.self, r.cx),
                applied |-> Append(acc.applied,
                                   [pushes |-> r.pushes, writes |-> r.writes,
                                    gotos |-> r.gotos]),
                panicked |-> r.panicked],
               r.cx, branches, i + 1)

\* The loop over repeat(ecx).zip(branches): each outcome is applied to its
\* own clone of ecx and the clone pushed; a panic leaves the earlier pushes.
RECURSIVE ForkLoop(_, _, _, _)
ForkLoop(acc, ecx, branches, i) ==
    IF i > Len(branches) \/ acc.panicked THEN acc
    ELSE LET r == ApplyOutcome(ecx, branches[i])
         IN  ForkLoop(
               [self |-> IF r.panicked THEN acc.self
                         ELSE push_eval_context(acc.self, r.cx),
                applied |-> Append(acc.applied,
                                   [pushes |-> r.pushes, writes |-> r.writes,
                                    gotos |-> r.gotos]),
                panicked |-> r.panicked],
               ecx, branches, i + 1)


\* The casts a step is asked for: Cast rvalues (val, src_ty, dest_ty) over a
\* concrete u8, a concrete float, a symbolic bool and a pointer.
SymbolicBool == Abstract(<<InputCell(1)>>)
StepCasts ==
    { [val |-> Bytes(U128(200)), src_ty |-> "u8", dest_ty |-> "u16"],
      [val |-> Bytes(U128(200)), src_ty |-> "u8", dest_ty |-> "bool"],
      [val |-> Bytes(U128(200)), src_ty |-> "f32", dest_ty |-> "u8"],
      [val |-> SymbolicBool, src_ty |-> "bool", dest_ty |-> "u8"],
      [val |-> SymbolicBool, src_ty |-> "bool", dest_ty |-> "char"] }

NoCast == [val |-> Undef, src_ty |-> "", dest_ty |-> ""]

\* A step that evaluates a Cast rvalue: the cast's value is stored and the
\* step continues, the cast's error is the step's error (`?`), its panic
\* unwinds through step.
cast_step(ecx, c) ==
    LET r == cast_primval(ecx.cons, c.val, c.src_ty, c.dest_ty)
    IN  [tag |-> CASE r.res = "Ok" -> "continue" [] r.res = "Err" -> "err"
                   [] OTHER -> "panic",
         ecx |-> [ecx EXCEPT !.cons = r.cons], branches |-> <<>>, err |-> r.err,
         cast |-> c]

\* EvalContext::step, one unit of work of one state. The interpreter is not
\* part of the scheduler: a step is any of the results run matches on.
\*   Ok((true, None)), possibly having allocated; Ok((true, Some(branches)));
\*   Ok((false, _)); Err(e); and a step that evaluates a cast.
step(ecx) ==
    { [tag |-> "continue", ecx |-> [ecx EXCEPT !.heap = h],
       branches |-> <<>>, err |-> "", cast |-> NoCast] : h \in {ecx.heap, 1} }
    \cup { [tag |-> "fork", ecx |-> ecx, branches |-> b, err |-> "", cast |-> NoCast] :
             b \in Forks }
    \cup { [tag |-> "done", ecx |-> ecx, branches |-> <<>>, err |-> "", cast |-> NoCast] }
    \cup { [tag |-> "err", ecx |-> ecx, branches |-> <<>>, err |-> "Unimplemented",
            cast |-> NoCast] }
    \cup { cast_step(ecx, c) : c \in StepCasts }

\* ExecutionComplete asking the store for the cells of one value
ExecutionCompleteShort(ecx, result) ==
    [ticket |-> ecx.ticket, input_len |-> PointerBytes,
     constraints |-> ecx.cons, result |-> result]

\* ExecutionComplete { input: get_satisfying_values(HACK_ABSTRACT_ALLOC_LEN), result }
\* as the consumer receives it: the request made of the constraint store (the
\* length asked for, over the state's constraints) and the result.
ExecutionComplete(ecx, result) ==
    [ticket |-> ecx.ticket, input_len |-> HACK_ABSTRACT_ALLOC_LEN,
     constraints |-> ecx.cons, result |-> result]

\* go_on with `None => false`
consumer_answer_none_stops(m, answer) == m = "symbolic" /\ answer

\* `match self.consumer { Some(ref f) => f(..), None => true }`: go_on, given
\* what an installed consumer answers
consumer_answer(m, answer) == IF m = "symbolic" THEN answer ELSE TRUE

\* run without the `break`
loop_after_no_break(go_on) == "running"

\* `if !go_on { break }`: where run is after a finished path
loop_after(go_on) == IF go_on THEN "running" ELSE "stopped"

\* the root allocation left alone
deallocate_root_skipped(ecx) == ecx

\* ecx.memory.root_abstract_alloc.map(|p| ecx.memory.deallocate(p).unwrap())
deallocate_root(ecx) == IF ecx.root # 0 THEN [ecx EXCEPT !.rootlive = FALSE] ELSE ecx

\* ecx.memory.leak_report(): the live allocations
leak_report(ecx) == ecx.heap + (IF ecx.rootlive THEN 1 ELSE 0)

\* Executor::new_main / Executor::new_symbolic: the first context, pushed.
new_context(m) ==
    [ticket |-> 0, block |-> 0, cons |-> <<>>, mem |-> 0,
     root |-> IF m = "symbolic" THEN HACK_ABSTRACT_ALLOC_LEN ELSE 0,
     rootlive |-> (m = "symbolic"), heap |-> 0]

Executor(m) == push_eval_context([queue |-> <<>>, enq |-> 0], new_context(m))

\* op is the value operation (a cast, an intrinsic call) examined on its own,
\* outside a run; during a run there is none.
NoOp == [stage |-> "none"]

Init ==
    /\ mode \in {"main", "symbolic"}
    /\ queue = Executor(mode).queue
    /\ enq = Executor(mode).enq
    /\ deq = 0
    /\ pc = "running"
    /\ calls = <<>>
    /\ last = [arm |-> "new", head |-> NoEcx, after |-> NoEcx, branches |-> <<>>,
               applied |-> <<>>, trace |-> <<>>, cast |-> NoCast, err |-> ""]
    /\ op = NoOp

\* `while let Some(mut ecx) = self.pop_eval_context()` with the queue non-empty
Popped == pop_eval_context([queue |-> queue, enq |-> enq])

\* Ok((true, None)) => self.push_eval_context(ecx)
RunContinue ==
    /\ pc = "running" /\ queue # <<>> /\ deq < MaxSteps
    /\ \E r \in step(Popped.ecx) :
         /\ r.tag = "continue"
         /\ LET self == push_eval_context(Popped.self, r.ecx)
            IN  /\ queue' = self.queue
                /\ enq' = self.enq
         /\ last' = [arm |-> "continue", head |-> Popped.ecx, after |-> r.ecx,
                     branches |-> <<>>, applied |-> <<>>,
                     trace |-> <<"step", "push">>, cast |-> r.cast, err |-> ""]
    /\ deq' = deq + 1
    /\ UNCHANGED <<pc, mode, calls, op>>

\* Ok((true, Some(branches))) with branches.is_empty(): unimplemented!()
RunForkEmpty ==
    /\ pc = "running" /\ queue # <<>> /\ deq < MaxSteps
    /\ \E r \in step(Popped.ecx) :
         /\ r.tag = "fork" /\ r.branches = <<>>
         /\ last' = [arm |-> "fork_empty", head |-> Popped.ecx, after |-> r.ecx,
                     branches |-> <<>>, applied |-> <<>>,
                     trace |-> <<"step", "panic">>, cast |-> NoCast, err |-> ""]
    /\ queue' = Popped.self.queue
    /\ pc' = "panicked"
    /\ deq' = deq + 1
    /\ UNCHANGED <<mode, calls, enq, op>>

\* Ok((true, Some(branches))) with outcomes: the loop over the outcomes
RunFork ==
    /\ pc = "running" /\ queue # <<>> /\ deq < MaxSteps
    /\ \E r \in step(Popped.ecx) :
         /\ r.tag = "fork" /\ r.branches # <<>>
         /\ LET f == ForkLoop([self |-> Popped.self, applied |-> <<>>,
                               panicked |-> FALSE], r.ecx, r.branches, 1)
            IN  /\ queue' = f.self.queue
                /\ enq' = f.self.enq
                /\ pc' = IF f.panicked THEN "panicked" ELSE pc
                /\ last' = [arm |-> "fork", head |-> Popped.ecx, after |-> r.ecx,
                            branches |-> r.branches, applied |-> f.applied,
                            trace |-> <<"step">> \o
                                      (IF f.panicked THEN <<"panic">> ELSE <<"push">>),
                            cast |-> NoCast, err |-> ""]
    /\ deq' = deq + 1
    /\ UNCHANGED <<mode, calls, op>>

\* Ok((false, _)): the consumer, the release of the root allocation, the leak
\* report, then the consumer's answer
RunDone ==
    /\ pc = "running" /\ queue # <<>> /\ deq < MaxSteps
    /\ \E r \in step(Popped.ecx), answer \in BOOLEAN :
         /\ r.tag = "done"
         /\ LET go_on == consumer_answer(mode, answer)
                freed == deallocate_root(r.ecx)
                leaks == leak_report(freed)
            IN  /\ calls' = IF mode = "symbolic"
                              THEN Append(calls, [call |-> ExecutionComplete(r.ecx, "Ok"),
                                                  go_on |-> go_on])
                              ELSE calls
                /\ pc' = loop_after(go_on)
                /\ last' = [arm |-> "done", head |-> Popped.ecx, after |-> freed,
                            branches |-> <<>>, applied |-> <<>>,
                            trace |-> <<"step">>
                               \o (IF mode = "symbolic" THEN <<"consumer">> ELSE <<>>)
                               \o (IF r.ecx.root # 0 THEN <<"deallocate">> ELSE <<>>)
                               \o <<"leak_report">>
                               \o (IF leaks # 0 THEN <<"sess_err">> ELSE <<>>)
                               \o (IF go_on THEN <<>> ELSE <<"break">>),
                            cast |-> NoCast, err |-> ""]
    /\ queue' = Popped.self.queue
    /\ deq' = deq + 1
    /\ UNCHANGED <<mode, enq, op>>

\* Err(e): the consumer, then the consumer's answer
RunError ==
    /\ pc = "running" /\ queue # <<>> /\ deq < MaxSteps
    /\ \E r \in step(Popped.ecx), answer \in BOOLEAN :
         /\ r.tag = "err"
         /\ LET go_on == consumer_answer(mode, answer)
            IN  /\ calls' = IF mode = "symbolic"
                              THEN Append(calls, [call |-> ExecutionComplete(r.ecx, r.err),
                                                  go_on |-> go_on])
                              ELSE calls
                /\ pc' = loop_after(go_on)
                /\ last' = [arm |-> "error", head |-> Popped.ecx, after |-> r.ecx,
                            branches |-> <<>>, applied |-> <<>>,
                            trace |-> <<"step">>
                               \o (IF mode = "symbolic" THEN <<"consumer">> ELSE <<>>)
                               \o (IF go_on THEN <<>> ELSE <<"break">>),
                            cast |-> r.cast, err |-> r.err]
    /\ queue' = Popped.self.queue
    /\ deq' = deq + 1
    /\ UNCHANGED <<mode, enq, op>>

\* ecx.step() panics (an unimplemented!() of a cast): run unwinds
RunStepPanic ==
    /\ pc = "running" /\ queue # <<>> /\ deq < MaxSteps
    /\ \E r \in step(Popped.ecx) :
         /\ r.tag = "panic"
         /\ last' = [arm |-> "step_panic", head |-> Popped.ecx, after |-> r.ecx,
                     branches |-> <<>>, applied |-> <<>>,
                     trace |-> <<"step", "panic">>, cast |-> r.cast, err |-> ""]
    /\ queue' = Popped.self.queue
    /\ pc' = "panicked"
    /\ deq' = deq + 1
    /\ UNCHANGED <<mode, calls, enq, op>>

\* pop_eval_context() returns None: the while loop ends
RunExit ==
    /\ pc = "running" /\ queue = <<>>
    /\ pc' = "finished"
    /\ last' = [arm |-> "exit", head |-> NoEcx, after |-> NoEcx, branches |-> <<>>,
                applied |-> <<>>, trace |-> <<>>, cast |-> NoCast, err |-> ""]
    /\ UNCHANGED <<queue, mode, calls, enq, deq, op>>

Next ==
    \/ RunContinue
    \/ RunForkEmpty
    \/ RunFork
    \/ RunDone
    \/ RunError
    \/ RunStepPanic
    \/ RunExit

Spec == Init /\ [][Next]_vars

\* ------------------------------------------------- terminator/intrinsic.rs
\* The names call_intrinsic matches literally, arm by arm.
OverflowNames == {"add_with_overflow", "sub_with_overflow", "mul_with_overflow"}
LoadNames == {"atomic_load", "atomic_load_relaxed", "atomic_load_acq", "volatile_load"}
StoreNames == {"atomic_store", "atomic_store_relaxed", "atomic_store_rel", "volatile_store"}
AtomicOpNames ==
    { "atomic_" \o o \o s : o \in {"or", "xor", "and", "xadd", "xsub"},
                            s \in {"", "_acq", "_rel", "_acqrel", "_relaxed"} }
CopyNames == {"copy", "copy_nonoverlapping"}
NumericNames == {"ctpop", "cttz", "cttz_nonzero", "ctlz", "ctlz_nonzero", "bswap"}
FloatMathNames ==
    { f \o w : f \in {"sin", "fabs", "cos", "sqrt", "exp", "exp2", "log", "log10",
                      "log2", "floor", "ceil", "trunc", "pow", "fma", "powi"},
               w \in {"f32", "f64"} }
FastMathNames == {"fadd_fast", "fsub_fast", "fmul_fast", "fdiv_fast", "frem_fast"}
NoOpNames == {"likely", "unlikely", "forget"}
LayoutNames ==
    {"min_align_of", "pref_align_of", "needs_drop", "size_of", "size_of_val",
     "min_align_of_val", "align_of_val", "type_name", "type_id", "discriminant_value"}
OverflowingNames == {"overflowing_sub", "overflowing_mul", "overflowing_add"}

\* The memory orderings an atomic exchange or compare-exchange is named with.
Orderings == {"", "_acq", "_rel", "_acqrel", "_relaxed"}
FailOrderings == {"_failrelaxed", "_failacq", "_acq_failrelaxed", "_acqrel_failrelaxed"}
XchgNames == { "atomic_xchg" \o s : s \in Orderings }
CxchgNames ==
    { "atomic_cxchg" \o w \o s : w \in {"", "weak"}, s \in Orderings \cup FailOrderings }

\* Names of intrinsics call_intrinsic has no arm for.
OtherNames ==
    {"atomic_fence", "atomic_fence_rel", "atomic_singlethreadfence", "atomic_nand",
     "atomic_load_unordered", "atomic_umax", "unreachable", "abort", "bitreverse",
     "unchecked_div", "prefetch_read_data", "volatile_copy_memory"}

IntrinsicNames ==
    {"align_offset", "arith_offset", "assume", "atomic_fence_acq", "breakpoint",
     "exact_div", "init", "move_val_init", "offset", "transmute", "uninit",
     "write_bytes"}
    \cup OverflowNames \cup LoadNames \cup StoreNames \cup AtomicOpNames \cup CopyNames
    \cup NumericNames \cup FloatMathNames \cup FastMathNames \cup NoOpNames
    \cup LayoutNames \cup OverflowingNames \cup XchgNames \cup CxchgNames
    \cup OtherNames

\* intrinsic_name.starts_with(prefix), ends_with(suffix) and
\* trim_right_matches(suffix), over the names above.
NameTails == {"_nonzero", "weak"} \cup Orderings \cup FailOrderings
             \cup { "weak" \o s : s \in Orderings \cup FailOrderings }
starts_with(name, prefix) == \E t \in NameTails : name = prefix \o t
ends_with(name, suffix) == \E h \in IntrinsicNames : name = h \o suffix
trim_right_matches(name, suffix) ==
    IF ends_with(name, suffix)
      THEN CHOOSE h \in IntrinsicNames : name = h \o suffix
      ELSE name

\* Rust's integer methods on the low w bytes of a u128 (`bytes as uN`).
IsSignedKind(kind) == kind \in {"I8", "I16", "I32", "I64", "I128"}
LowBits(v, w) == BitsOf(SubSeq(v, 1, w))
swap_bytes(v, w) == [i \in 1..U128Bytes |-> IF i <= w THEN v[w + 1 - i] ELSE 0]
leading_zeros(v, w) ==
    IF Ones(LowBits(v, w)) = {} THEN 8 * w ELSE 8 * w - Highest(Ones(LowBits(v, w)))
trailing_zeros(v, w) ==
    IF Ones(LowBits(v, w)) = {} THEN 8 * w ELSE Lowest(Ones(LowBits(v, w))) - 1
count_ones(v, w) == Cardinality(Ones(LowBits(v, w)))

\* integer_intrinsic!($method): `(bytes as K).$method() as u128`; swap_bytes
\* returns a K, which `as u128` sign-extends when K is signed, the counts are
\* u32.
integer_intrinsic(method, bytes, kind) ==
    IF ~is_int(kind) THEN Panic
    ELSE LET w == num_bytes(kind)
         IN  CASE method = "swap_bytes" ->
                    Ok(Bytes(IF IsSignedKind(kind) THEN SignExtend(swap_bytes(bytes, w), w)
                             ELSE ZeroExtend(swap_bytes(bytes, w), w)))
               [] method = "leading_zeros" -> Ok(Bytes(U128(leading_zeros(bytes, w))))
               [] method = "count_ones" -> Ok(Bytes(U128(count_ones(bytes, w))))
               [] method = "trailing_zeros" -> Ok(Bytes(U128(trailing_zeros(bytes, w))))

\* memory.constraints.add_intrinsic_constraint(intrinsic, val, kind): records
\* the named relation and returns the value it defines.
add_intrinsic_constraint(cons, intrinsic, val, kind) ==
    LET id == Len(cons) + 1
        result == [j \in 1..num_bytes(kind) |-> DerivedCell(id, j)]
    IN  [cons |-> Append(cons, [kind |-> intrinsic, id |-> id, cond |-> val.data,
                                then_val |-> <<>>, else_val |-> <<>>,
                                result |-> result]),
         val |-> Abstract(result)]

WithStore(r, cons) ==
    [res |-> r.res, val |-> r.val, err |-> r.err, arg |-> r.arg, cons |-> cons]

\* `for idx in 0..(num_bytes / 2) { swap sbytes[idx], sbytes[num_bytes - idx - 1] }`
bswap_cells(sbytes, num_bytes_) ==
    [i \in 1..Len(sbytes) |->
        IF i <= num_bytes_ THEN sbytes[num_bytes_ + 1 - i] ELSE sbytes[i]]

\* fn numeric_intrinsic(&mut self, name: &str, val: PrimVal, kind: PrimValKind)
\* on a context whose store holds cons; a panic is bug!(), unimplemented!() or
\* an index past the cells.
numeric_intrinsic(cons, name, val, kind) ==
    CASE val.tag = "Bytes" ->
            CASE name = "bswap" -> WithStore(integer_intrinsic("swap_bytes", val.data, kind), cons)
              [] name = "ctlz" -> WithStore(integer_intrinsic("leading_zeros", val.data, kind), cons)
              [] name = "ctpop" -> WithStore(integer_intrinsic("count_ones", val.data, kind), cons)
              [] name = "cttz" -> WithStore(integer_intrinsic("trailing_zeros", val.data, kind), cons)
              [] OTHER -> WithStore(Panic, cons)
      [] val.tag = "Abstract" ->
            CASE name = "bswap" ->
                    IF num_bytes(kind) >= 2 /\ num_bytes(kind) > Len(val.data)
                      THEN WithStore(Panic, cons)
                      ELSE WithStore(Ok(Abstract(bswap_cells(val.data, num_bytes(kind)))), cons)
              [] name \in {"ctlz", "ctpop", "cttz"} ->
                    LET c == add_intrinsic_constraint(cons, name, val, kind)
                    IN  WithStore(Ok(c.val), c.cons)
              [] OTHER -> WithStore(Panic, cons)
      [] OTHER -> WithStore(Panic, cons)

\* The frame an intrinsic is called in: the block it is at, its constraint
\* store, the destination place dest, the one memory location loc its
\* pointer arguments point to, and the places written so far, in order.
Frame(old) == [block |-> 0, cons |-> <<>>, dest |-> Undef, loc |-> old, writes |-> <<>>]

\* a value computed by code outside this file (layout queries, float math)
Opaque(name) == [tag |-> "Opaque", data |-> name]
\* Value::ByValPair(a, b)
Pair(a, b) == [tag |-> "Pair", data |-> <<a, b>>]
U128Max == [i \in 1..U128Bytes |-> 255]

\* self.write_primval(dest, ..), write_value(.., dest), write_pair_to_ptr(..,
\* dest), modify_local(..) for place "dest"; self.write_primval(
\* Place::from_ptr(ptr), ..), write_value_to_ptr(.., ptr, ..), memory.copy,
\* memory.write_repeat for place "ptr".
write_place(cx, place, val) ==
    IF place = "dest"
      THEN [cx EXCEPT !.dest = val, !.writes = Append(@, "dest")]
      ELSE [cx EXCEPT !.loc = val, !.writes = Append(@, "ptr")]

\* memory.constraints.add_binop_constraint(op, lhs, rhs, kind): records the
\* relation and returns the value it defines and, derived with it, the
\* overflow flag.
add_binop_constraint(cons, bin_op, left, right, kind) ==
    LET id == Len(cons) + 1
        result == [j \in 1..num_bytes(kind) |-> DerivedCell(id, j)]
        overflow == <<DerivedCell(id, num_bytes(kind) + 1)>>
    IN  [cons |-> Append(cons, [kind |-> "binop", id |-> id, op |-> bin_op,
                                left |-> left.data, right |-> right.data,
                                result |-> result, overflow |-> overflow]),
         val |-> Abstract(result), overflow |-> Abstract(overflow)]

\* An operation on two 8-bit unsigned values: the wrapped result and whether
\* it overflowed.
BitAt(n, i) == (n \div (2 ^ i)) % 2
AndByte(a, b) ==
    LET t(i) == BitAt(a, i) * BitAt(b, i) * (2 ^ i)
    IN  t(0) + t(1) + t(2) + t(3) + t(4) + t(5) + t(6) + t(7)
ByteOp(bin_op, a, b) ==
    CASE bin_op = "Add" -> [val |-> (a + b) % 256, overflow |-> a + b >= 256]
      [] bin_op = "Sub" -> [val |-> (a - b + 256) % 256, overflow |-> a < b]
      [] bin_op = "Mul" -> [val |-> (a * b) % 256, overflow |-> a * b >= 256]
      [] bin_op = "Div" -> [val |-> IF b = 0 THEN 0 ELSE a \div b, overflow |-> FALSE]
      [] bin_op = "Eq" -> [val |-> IF a = b THEN 1 ELSE 0, overflow |-> FALSE]
      [] bin_op = "BitAnd" -> [val |-> AndByte(a, b), overflow |-> FALSE]
      [] bin_op = "BitOr" -> [val |-> a + b - AndByte(a, b), overflow |-> FALSE]
      [] bin_op = "BitXor" -> [val |-> a + b - 2 * AndByte(a, b), overflow |-> FALSE]

FromBool(b) == Bytes(U128(IF b THEN 1 ELSE 0))

\* self.binary_op(op, left, ty, right, ty) on two values of an 8-bit unsigned
\* type: computed when both are concrete, asked of the store otherwise.
\* res is "Ok" or "Err" (a division by zero).
binary_op(cons, bin_op, left, right, kind) ==
    IF left.tag = "Bytes" /\ right.tag = "Bytes"
      THEN IF bin_op = "Div" /\ right.data[1] = 0
             THEN [res |-> "Err", cons |-> cons, val |-> Undef, overflow |-> Undef]
             ELSE LET r == ByteOp(bin_op, left.data[1], right.data[1])
                  IN  [res |-> "Ok", cons |-> cons, val |-> Bytes(U128(r.val)),
                       overflow |-> FromBool(r.overflow)]
      ELSE LET c == add_binop_constraint(cons, bin_op, left, right, kind)
           IN  [res |-> "Ok", cons |-> c.cons, val |-> c.val, overflow |-> c.overflow]

\* self.intrinsic_with_overflow(op, left, right, dest, dest_ty): the pair of
\* the result and the overflow flag written to dest.
intrinsic_with_overflow(cx, bin_op, left, right, kind) ==
    LET r == binary_op(cx.cons, bin_op, left, right, kind)
    IN  write_place([cx EXCEPT !.cons = r.cons], "dest", Pair(r.val, r.overflow))

\* self.intrinsic_overflowing(op, left, right, dest, dest_ty): the wrapped
\* result written to dest.
intrinsic_overflowing(cx, bin_op, left, right, kind) ==
    LET r == binary_op(cx.cons, bin_op, left, right, kind)
    IN  write_place([cx EXCEPT !.cons = r.cons], "dest", r.val)

\* The constraint store asked for a satisfying assignment: the cells of the
\* input are free, a cell a relation defines has the value the relation
\* gives it. env maps a symbolic cell to its byte.
CellValue(cell, env) == IF cell >= 0 THEN cell ELSE env[cell]
Holds(cells, env) == \E j \in 1..Len(cells) : CellValue(cells[j], env) # 0
\* the bytes of cells under an assignment, as a u128
CellBytes(cells, env) ==
    [i \in 1..U128Bytes |-> IF i <= Len(cells) THEN CellValue(cells[i], env) ELSE 0]
\* the bytes a relation gives the cells it defines
RelationValue(c, env) ==
    CASE c.kind = "ite" -> IF Holds(c.cond, env) THEN c.then_val ELSE c.else_val
      [] c.kind = "binop" ->
            U128(ByteOp(c.op, CellValue(c.left[1], env), CellValue(c.right[1], env)).val)
      [] c.kind = "ctlz" -> U128(leading_zeros(CellBytes(c.cond, env), Len(c.result)))
      [] c.kind = "cttz" -> U128(trailing_zeros(CellBytes(c.cond, env), Len(c.result)))
      [] c.kind = "ctpop" -> U128(count_ones(CellBytes(c.cond, env), Len(c.result)))
      [] OTHER -> <<>>
RECURSIVE get_satisfying_values(_, _)
get_satisfying_values(cons, env) ==
    IF cons = <<>> THEN env
    ELSE LET c == Head(cons)
             defined == IF c.kind = "path" THEN <<>>
                        ELSE [cell \in { c.result[j] : j \in 1..Len(c.result) } |->
                                RelationValue(c, env)[CHOOSE j \in 1..Len(c.result) :
                                                         c.result[j] = cell]]
             flag == IF c.kind = "binop"
                       THEN [cell \in {c.overflow[1]} |->
                               IF ByteOp(c.op, CellValue(c.left[1], env),
                                         CellValue(c.right[1], env)).overflow
                                 THEN 1 ELSE 0]
                       ELSE <<>>
         IN  get_satisfying_values(Tail(cons), (env @@ defined) @@ flag)

\* the bytes of a value under an assignment
Materialize(val, env) ==
    IF val.tag = "Pair"
      THEN << [j \in 1..Len(val.data[1].data) |-> CellValue(val.data[1].data[j], env)],
              [j \in 1..Len(val.data[2].data) |-> CellValue(val.data[2].data[j], env)] >>
      ELSE [j \in 1..Len(val.data) |-> CellValue(val.data[j], env)]

\* The symbolic cells of the input a value mentions, each given a byte.
InputCellsOf(val) == { val.data[j] : j \in 1..Len(val.data) } \ (0..255)
Assignments(val) == [InputCellsOf(val) -> {0, 1}]

\* ------------------------------------------------------- casts on their own
\* The executor while a value operation is examined: no run.
Idle ==
    /\ queue = <<>> /\ pc = "idle" /\ mode = "main" /\ calls = <<>>
    /\ enq = 0 /\ deq = 0
    /\ last = [arm |-> "new", head |-> NoEcx, after |-> NoEcx, branches |-> <<>>,
               applied |-> <<>>, trace |-> <<>>, cast |-> NoCast, err |-> ""]

\* The bit patterns the values are drawn from: the low MaxVaryBytes bytes are
\* any of ByteChoices, every higher byte is all zeros or all ones.
ByteChoices == {0, 1, 127, 128, 255}
RawValues ==
    { [i \in 1..U128Bytes |-> IF i <= MaxVaryBytes THEN b[i] ELSE f] :
        b \in [1..MaxVaryBytes -> ByteChoices], f \in {0, 255} }

\* The concrete PrimVals of a type: a signed integer is held sign-extended to
\* 128 bits (PrimVal::from_i128), every other value zero-extended from its
\* width; a char is a scalar value below 0x10000.
BytesOfTy(ty) ==
    CASE ty \in IntTys -> { Bytes(int_to_int(r, ty)) : r \in RawValues }
      [] ty \in UintTys -> { Bytes(int_to_uint(r, ty)) : r \in RawValues }
      [] ty = "bool" -> { Bytes(U128(0)), Bytes(U128(1)) }
      [] ty = "char" -> { Bytes(ZeroExtend(r, 2)) : r \in RawValues }
      [] ty \in FloatTys \cup {"rawptr", "fnptr"} ->
            { Bytes(ZeroExtend(r, num_bytes(ty_to_primval_kind(ty)))) : r \in RawValues }
      [] OTHER -> {}

\* The abstract PrimVals of a type: as many cells as the type has bytes, the
\* low k of them symbolic bytes of the input, the others one concrete byte.
AbstractOfTy(ty) ==
    IF ty \in IntTys \cup UintTys \cup {"char", "bool"}
      THEN LET n == num_bytes(ty_to_primval_kind(ty))
           IN  { Abstract([i \in 1..n |-> IF i <= k THEN InputCell(i) ELSE c]) :
                   k \in 1..n, c \in {0, 255} }
      ELSE {}

\* The pointers: a region and an offset into it; a pointer value has a
\* pointer type or a pointer-sized integer type.
Regions == {1, 2}
PtrOfTy(ty) ==
    IF ty \in {"rawptr", "fnptr", "isize", "usize"}
      THEN { Ptr(a, o) : a \in Regions, o \in {0, 8} }
      ELSE {}

PrimValsOfTy(ty) == BytesOfTy(ty) \cup AbstractOfTy(ty) \cup PtrOfTy(ty) \cup {Undef}

NoResult == [res |-> "", val |-> Undef, err |-> "", arg |-> <<>>, cons |-> <<>>]

\* A Cast rvalue about to be evaluated in a context with an empty store.
CastInit ==
    /\ Idle
    /\ \E src_ty \in Tys \ {"tuple"}, dest_ty \in Tys :
         \E val \in PrimValsOfTy(src_ty) :
            op = [stage |-> "input", val |-> val, src_ty |-> src_ty,
                  dest_ty |-> dest_ty, r1 |-> NoResult, r2 |-> NoResult,
                  input |-> <<>>, model |-> <<>>]

\* cast_primval(val, src_ty, dest_ty)
CastForward ==
    /\ op.stage = "input"
    /\ op' = [op EXCEPT !.stage = "cast",
                        !.r1 = cast_primval(<<>>, op.val, op.src_ty, op.dest_ty)]
    /\ UNCHANGED <<queue, pc, mode, calls, enq, deq, last>>

\* the value of the first cast cast back: cast_primval(r1, dest_ty, src_ty)
CastBack ==
    /\ op.stage = "cast" /\ op.r1.res = "Ok"
    /\ op' = [op EXCEPT !.stage = "back",
                        !.r2 = cast_primval(op.r1.cons, op.r1.val, op.dest_ty, op.src_ty)]
    /\ UNCHANGED <<queue, pc, mode, calls, enq, deq, last>>

\* a satisfying assignment requested after a cast that recorded a relation
CastSolve ==
    /\ op.stage = "cast" /\ op.r1.res = "Ok" /\ op.r1.cons # <<>>
    /\ \E input \in Assignments(op.val) :
         op' = [op EXCEPT !.stage = "solved", !.input = input,
                          !.model = Materialize(op.r1.val,
                                                get_satisfying_values(op.r1.cons, input))]
    /\ UNCHANGED <<queue, pc, mode, calls, enq, deq, last>>

CastNext ==
    \/ CastForward
    \/ CastBack
    \/ CastSolve

CastSpec == CastInit /\ [][CastNext]_vars


\* ------------------------------------------------------------ properties
IsPrefix(a, b) == Len(a) <= Len(b) /\ SubSeq(b, 1, Len(a)) = a

\* The children the last fork pushed are the last entries of the queue; a
\* fork that panicked did not push the outcome it panicked in.
ForkPushed == IF pc = "panicked" THEN Len(last.applied) - 1 ELSE Len(last.applied)
ForkChild(i) == queue[Len(queue) - ForkPushed + i]

\* C1: for every outcome of a non-empty fork, whatever the number of
\* constraints it carries, the copy pushed to the queue has every constraint
\* of the outcome pushed onto its store, has the accompanying value (when
\* present) written exactly once, and resumes at the outcome's target block.
C1_OutcomeApplied ==
    last.arm = "fork" =>
        \A i \in 1..ForkPushed :
            /\ ForkChild(i).cons = last.after.cons \o last.branches[i].constraints
            /\ last.branches[i].set_lvalue.some =>
                  /\ last.applied[i].writes = 1
                  /\ ForkChild(i).mem = last.branches[i].set_lvalue.prim
            /\ ForkChild(i).block = last.branches[i].goto_block

\* C2: run ends only because the queue is empty or the consumer returned
\* false: neither a fork with zero outcomes nor a value write that fails while
\* an outcome is applied aborts the loop.
C2_ForkNeverAborts ==
    last.arm \in {"fork", "fork_empty"} => pc # "panicked"

\* C3: states are stepped in exactly the order they were enqueued: the queue
\* holds the pushes not yet stepped, oldest first, the state just stepped is
\* the oldest push, and a state that continues without a fork is the newest
\* push, at the tail behind every state that was queued with it.
C3_FifoOrder ==
    /\ Len(queue) = enq - deq
    /\ \A i \in 1..Len(queue) : queue[i].ticket = deq + i
    /\ last.arm \notin {"new", "exit"} => last.head.ticket = deq
    /\ last.arm = "continue" =>
          queue[Len(queue)] = [last.after EXCEPT !.ticket = enq]

\* C3 witness: a fork child continued and was re-enqueued behind the sibling
\* that had been queued with it; the sibling is now at the head.
C3_Witness ==
    /\ last.arm = "continue"
    /\ last.head.cons # <<>>
    /\ Len(queue) >= 2
    /\ queue[1].ticket = last.head.ticket + 1
    /\ queue[Len(queue)].ticket = enq


LastCall == calls[Len(calls)]

\* C4: in target-function mode every state whose step reports done causes
\* exactly one consumer call, carrying Success and the input requested from
\* that state's constraint store for the length of the root symbolic buffer;
\* the consumer is not called for a step that reported continue (or did not
\* return), and the done state is not enqueued again.
C4_DoneReportedOnce ==
    [][ (mode = "symbolic" /\ deq' = deq + 1) =>
          /\ last'.arm = "done" =>
                /\ calls' = Append(calls, calls'[Len(calls')])
                /\ calls'[Len(calls')].call =
                      [ticket |-> Head(queue).ticket, input_len |-> Head(queue).root,
                       constraints |-> last'.after.cons, result |-> "Ok"]
                /\ Head(queue).root = HACK_ABSTRACT_ALLOC_LEN
                /\ queue' = Tail(queue)
                /\ enq' = enq
          /\ last'.arm \in {"continue", "fork", "fork_empty", "step_panic"} =>
                calls' = calls
      ]_vars

\* C4 witness: a done path was reported while other states wait in the queue.
C4_Witness ==
    /\ mode = "symbolic" /\ last.arm = "done" /\ queue # <<>>
    /\ Len(calls) >= 1 /\ LastCall.call.ticket = last.head.ticket
    /\ LastCall.call.result = "Ok"

\* C5: when a state's step returns an error the state is dropped, the
\* consumer (if installed) is called exactly once for it with the error as a
\* Failure, and if the consumer answers true or none is installed the loop
\* goes on with the states still in the queue.
C5_ErrorReported ==
    [][ (deq' = deq + 1 /\ last'.arm = "error") =>
          /\ queue' = Tail(queue)
          /\ enq' = enq
          /\ mode = "symbolic" =>
                /\ calls' = Append(calls, calls'[Len(calls')])
                /\ calls'[Len(calls')].call =
                      [ticket |-> Head(queue).ticket,
                       input_len |-> HACK_ABSTRACT_ALLOC_LEN,
                       constraints |-> last'.after.cons, result |-> last'.err]
                /\ last'.err \in {"Unimplemented", "InvalidChar", "ReadPointerAsBytes",
                                  "TypeNotPrimitive"}
                /\ calls'[Len(calls')].go_on => pc' = "running"
          /\ mode = "main" => (calls' = calls /\ pc' = "running")
      ]_vars

\* C5 witness: a failed path was reported, the consumer answered true, and a
\* state remains to be stepped.
C5_Witness ==
    /\ mode = "symbolic" /\ last.arm = "error" /\ queue # <<>> /\ pc = "running"
    /\ Len(calls) >= 1 /\ LastCall.call.result = "Unimplemented" /\ LastCall.go_on

\* C6: once the consumer returns false for a finished path (done or error)
\* run takes no further step and makes no further consumer call, even when
\* states remain in the queue: they are left unstepped.
C6_StopOnFalse ==
    [][ /\ (Len(calls') > Len(calls) /\ ~calls'[Len(calls')].go_on) =>
              (pc' = "stopped" /\ queue' = Tail(queue))
        /\ pc = "stopped" =>
              (pc' = "stopped" /\ queue' = queue /\ calls' = calls /\ deq' = deq)
      ]_vars

\* C6 witness: run stopped on the consumer's false with states still queued.
C6_Witness ==
    /\ pc = "stopped" /\ queue # <<>> /\ Len(calls) >= 1 /\ ~LastCall.go_on

Has(tr, e) == \E i \in 1..Len(tr) : tr[i] = e
Before(tr, a, b) == \E i, j \in 1..Len(tr) : i < j /\ tr[i] = a /\ tr[j] = b

C8_StepTouchesOnlyDequeued ==
    [][ deq' = deq + 1 =>
          /\ Len(queue') >= Len(queue) - 1
          /\ \A i \in 2..Len(queue) : queue'[i - 1] = queue[i]
          /\ last'.arm = "fork" =>
                \A i \in 1..Len(last'.applied) :
                    Len(queue) - 1 + i <= Len(queue') =>
                        queue'[Len(queue) - 1 + i] =
                            [ApplyOutcome(last'.after, last'.branches[i]).cx
                                EXCEPT !.ticket = enq + i]
      ]_vars

\* C8 witness: a fork pushed two children behind a state that was waiting.
C8_Witness ==
    /\ last.arm = "fork" /\ ForkPushed >= 2 /\ Len(queue) > ForkPushed

\* C9: path constraints only grow: a state's sequence after its step has its
\* sequence before the step as a prefix, a state that continues is enqueued
\* with that sequence, and a fork child's sequence is the parent's followed
\* by its outcome's constraints in order.
C9_ConstraintsGrow ==
    /\ IsPrefix(last.head.cons, last.after.cons)
    /\ last.arm = "continue" => queue[Len(queue)].cons = last.after.cons
    /\ last.arm = "fork" =>
          \A i \in 1..ForkPushed :
              /\ IsPrefix(last.head.cons, ForkChild(i).cons)
              /\ ForkChild(i).cons = last.after.cons \o last.branches[i].constraints

\* C9 witness: a parent that already had constraints forked into a child
\* that got two more.
C9_Witness ==
    /\ last.arm = "fork" /\ last.head.cons # <<>> /\ ForkPushed >= 1
    /\ Len(last.branches[1].constraints) >= 2
    /\ Len(ForkChild(1).cons) = Len(last.head.cons) + 2

\* The casts the value model supports: concrete int/char to int/char/float,
\* abstract int/char to int/char, abstract bool to int, and the pointer casts.
SupportedCast(c) ==
    LET sk == ty_to_primval_kind(c.src_ty)
        dk == ty_to_primval_kind(c.dest_ty)
        intchar(k) == is_int(k) \/ k = "Char"
    IN  \/ c.val.tag = "Bytes" /\ intchar(sk) /\ (intchar(dk) \/ dk \in {"F32", "F64"})
        \/ c.val.tag = "Abstract" /\ intchar(sk) /\ intchar(dk)
        \/ c.val.tag = "Abstract" /\ sk = "Bool" /\ is_int(dk)
        \/ c.val.tag = "Ptr"
        \/ c.val.tag = "Undef"

\* C10: a cast outside the supported set (a concrete value of float source
\* type, an abstract value between other kinds) returns an explicit
\* unimplemented-cast error that reaches the consumer as a Failure; it never
\* crashes the scheduler and never returns a value.
C10_UnsupportedCastFails ==
    (last.cast # NoCast /\ ~SupportedCast(last.cast)) =>
        /\ cast_primval(last.head.cons, last.cast.val, last.cast.src_ty,
                        last.cast.dest_ty).res = "Err"
        /\ last.arm = "error" /\ last.err = "Unimplemented"
        /\ pc # "panicked"
        /\ mode = "symbolic" => LastCall.call.result = "Unimplemented"


\* -------------------------------------------------- intrinsics on their own
\* the BinOp of add_with_overflow taken to be Sub
with_overflow_op_sub(name) ==
    CASE name = "add_with_overflow" -> "Sub"
      [] name = "sub_with_overflow" -> "Sub"
      [] name = "mul_with_overflow" -> "Mul"

\* "add_with_overflow" => mir::BinOp::Add, "sub_with_overflow" => Sub,
\* "mul_with_overflow" => Mul
with_overflow_op(name) ==
    CASE name = "add_with_overflow" -> "Add"
      [] name = "sub_with_overflow" -> "Sub"
      [] name = "mul_with_overflow" -> "Mul"

\* "overflowing_sub" => Sub, "overflowing_mul" => Mul, "overflowing_add" => Add
overflowing_op(name) ==
    CASE name = "overflowing_sub" -> "Sub"
      [] name = "overflowing_mul" -> "Mul"
      [] name = "overflowing_add" -> "Add"

\* `match intrinsic_name.split('_').nth(1).unwrap()`
atomic_op(name) ==
    CASE starts_with(name, "atomic_or") -> "BitOr"
      [] starts_with(name, "atomic_xor") -> "BitXor"
      [] starts_with(name, "atomic_and") -> "BitAnd"
      [] starts_with(name, "atomic_xadd") -> "Add"
      [] starts_with(name, "atomic_xsub") -> "Sub"

\* the numeric arm calling numeric_intrinsic with the name as it is
numeric_name_untrimmed(name) == name

\* `intrinsic_name.trim_right_matches("_nonzero")` when the name ends with
\* "_nonzero", the name otherwise
numeric_name(name) ==
    IF ends_with(name, "_nonzero") THEN trim_right_matches(name, "_nonzero") ELSE name

\* the count-is-zero guard of write_bytes left out
write_bytes_guard_always(count) == TRUE

\* `if count > 0`
write_bytes_guard(count) == count.data # U128(0)

\* The memory subsystem's check of an access through ptr: the allocation is
\* live and the access within its bounds.
mem_ok(ptr) == ptr = Ptr(1, 0)

\* an error return that had entered the target block
intrinsic_failed_at_target(cx, target) == goto_block(cx, target)

\* `return Err(..)` and `?`: call_intrinsic is left before goto_block
intrinsic_failed(cx, target) == cx

\* `self.goto_block(target); Ok(())` after the match
intrinsic_done(cx, target) == goto_block(cx, target)

\* pub(super) fn call_intrinsic(&mut self, instance, args, dest, dest_ty,
\* dest_layout, target) in the frame cx, the operands already evaluated to
\* arg_vals and ty = substs.type_at(0). res is "Ok" (the frame went on to
\* target), "Err" with the error and what it carries, or "Panic"; cx is the
\* frame afterwards.
call_intrinsic(cx, intrinsic_name, ty, arg_vals, target) ==
    LET kind == ty_to_primval_kind(ty)
        done(c) == [res |-> "Ok", err |-> "", arg |-> "", cx |-> intrinsic_done(c, target)]
        fail(e, a) == [res |-> "Err", err |-> e, arg |-> a,
                       cx |-> intrinsic_failed(cx, target)]
        bad_access == fail("DanglingPointerDeref", "")
        panic == [res |-> "Panic", err |-> "", arg |-> "", cx |-> cx]
    IN  IF intrinsic_name = "align_offset"
          THEN done(write_place(cx, "dest", Bytes(U128Max)))
        ELSE IF intrinsic_name \in OverflowNames
          THEN done(intrinsic_with_overflow(cx, with_overflow_op(intrinsic_name),
                                            arg_vals[1], arg_vals[2], kind))
        ELSE IF intrinsic_name = "arith_offset"
          THEN done(write_place(cx, "dest", Opaque(intrinsic_name)))
        ELSE IF intrinsic_name = "assume"
          THEN IF arg_vals[1] = Bytes(U128(0)) THEN fail("AssumptionNotHeld", "")
               ELSE done(cx)
        ELSE IF intrinsic_name \in LoadNames
          THEN IF ~mem_ok(arg_vals[1]) THEN bad_access
               ELSE done(write_place(cx, "dest", cx.loc))
        ELSE IF intrinsic_name \in StoreNames
          THEN IF ~mem_ok(arg_vals[1]) THEN bad_access
               ELSE done(write_place(cx, "ptr", arg_vals[2]))
        ELSE IF intrinsic_name = "atomic_fence_acq"
          THEN done(cx)
        ELSE IF starts_with(intrinsic_name, "atomic_xchg")
          THEN LET change == arg_vals[2]
                   old == cx.loc
               IN  IF ~mem_ok(arg_vals[1]) THEN bad_access
                   ELSE done(write_place(write_place(cx, "dest", old), "ptr", change))
        ELSE IF starts_with(intrinsic_name, "atomic_cxchg")
          THEN LET expect_old == arg_vals[2]
                   change == arg_vals[3]
                   old == cx.loc
                   eq == binary_op(cx.cons, "Eq", old, expect_old, kind)
               IN  IF ~mem_ok(arg_vals[1]) THEN bad_access
                   ELSE done(write_place(
                               write_place([cx EXCEPT !.cons = eq.cons], "dest",
                                           Pair(old, eq.val)),
                               "ptr", change))
        ELSE IF intrinsic_name \in AtomicOpNames
          THEN LET change == arg_vals[2]
                   old == cx.loc
                   wrote == write_place(cx, "dest", old)
                   r == binary_op(wrote.cons, atomic_op(intrinsic_name), old, change, kind)
               IN  IF ~mem_ok(arg_vals[1]) THEN bad_access
                   ELSE done(write_place([wrote EXCEPT !.cons = r.cons], "ptr", r.val))
        ELSE IF intrinsic_name = "breakpoint"
          THEN panic
        ELSE IF intrinsic_name \in CopyNames
          THEN IF ~mem_ok(arg_vals[1]) \/ ~mem_ok(arg_vals[2]) THEN bad_access
               ELSE done(write_place(cx, "ptr", Opaque(intrinsic_name)))
        ELSE IF intrinsic_name \in NumericNames
          THEN LET primval == arg_vals[1]
               IN  IF kind = "" THEN fail("TypeNotPrimitive", ty)
                   ELSE IF ends_with(intrinsic_name, "_nonzero") /\ primval = Bytes(U128(0))
                     THEN fail("Intrinsic", intrinsic_name \o " called on 0")
                   ELSE LET num == numeric_intrinsic(cx.cons, numeric_name(intrinsic_name),
                                                     primval, kind)
                        IN  IF num.res = "Panic" THEN panic
                            ELSE done(write_place([cx EXCEPT !.cons = num.cons],
                                                  "dest", num.val))
        ELSE IF intrinsic_name \in FloatMathNames \cup FastMathNames \cup LayoutNames
          THEN done(write_place(cx, "dest", Opaque(intrinsic_name)))
        ELSE IF intrinsic_name = "exact_div"
          THEN LET r == binary_op(cx.cons, "Div", arg_vals[1], arg_vals[2], kind)
               IN  IF r.res = "Err" THEN fail("DivisionByZero", "")
                   ELSE done(write_place([cx EXCEPT !.cons = r.cons], "dest", r.val))
        ELSE IF intrinsic_name \in NoOpNames
          THEN done(cx)
        ELSE IF intrinsic_name = "init"
          THEN done(write_place(cx, "dest", Bytes(U128(0))))
        ELSE IF intrinsic_name = "move_val_init"
          THEN IF ~mem_ok(arg_vals[1]) THEN bad_access
               ELSE done(write_place(cx, "ptr", arg_vals[2]))
        ELSE IF intrinsic_name = "offset"
          THEN done(write_place(cx, "dest", Opaque(intrinsic_name)))
        ELSE IF intrinsic_name \in OverflowingNames
          THEN done(intrinsic_overflowing(cx, overflowing_op(intrinsic_name),
                                          arg_vals[1], arg_vals[2], kind))
        ELSE IF intrinsic_name = "transmute"
          THEN done(write_place(cx, "dest", arg_vals[1]))
        ELSE IF intrinsic_name = "uninit"
          THEN done(write_place(cx, "dest", Undef))
        ELSE IF intrinsic_name = "write_bytes"
          THEN IF write_bytes_guard(arg_vals[3])
                 THEN IF ~mem_ok(arg_vals[1]) THEN bad_access
                      ELSE done(write_place(cx, "ptr", Opaque(intrinsic_name)))
                 ELSE done(cx)
        ELSE fail("Unimplemented", "unimplemented intrinsic: " \o intrinsic_name)

\* The operands an intrinsic is called with. The arithmetic and the atomic
\* intrinsics are called at u8: bytes around the overflow of 250 + x, and a
\* symbolic byte of the input.
OverflowBytes == {0, 1, 5, 6, 127, 250, 255}
U8Vals == { Bytes(U128(b)) : b \in OverflowBytes }
SymbolicU8 == Abstract(<<InputCell(1)>>)
SmallU8Vals == { Bytes(U128(b)) : b \in {1, 2, 3} }
ThePtr == Ptr(1, 0)
\* a pointer into an allocation that was freed
DanglingPtr == Ptr(2, 0)

\* the abstract values of type ty a cast returned: every fully symbolic
\* integer cast to ty
AllSymbolic(ty) == Abstract([i \in 1..num_bytes(ty_to_primval_kind(ty)) |-> InputCell(i)])
CastAbstractOfTy(ty) ==
    { r.val : r \in { c \in { cast_primval(<<>>, AllSymbolic(src), src, ty) :
                               src \in IntTys \cup UintTys } : c.res = "Ok" } }

IntrinsicCall(name, ty, arg_vals, old) ==
    [stage |-> "input", name |-> name, ty |-> ty, arg_vals |-> arg_vals,
     cx |-> Frame(old), target |-> 1, r1 |-> [res |-> ""], r2 |-> [res |-> ""],
     input |-> <<>>, model |-> <<>>]

\* the numeric intrinsics called at an integer type: on its concrete values,
\* its abstract values and the abstract values a cast to it returned
NumericCalls(ty) ==
    { IntrinsicCall(n, ty, <<v>>, Undef) :
        n \in NumericNames,
        v \in BytesOfTy(ty) \cup AbstractOfTy(ty) \cup CastAbstractOfTy(ty) }

\* the calls of the other intrinsics, at u8
IntrinsicCalls ==
    { IntrinsicCall(n, "u8", <<l, r>>, Undef) :
        n \in OverflowNames \cup OverflowingNames \cup {"exact_div"},
        l \in U8Vals \cup {SymbolicU8}, r \in U8Vals }
    \cup { IntrinsicCall(n, "u8", <<ThePtr, a, b>>, old) :
             n \in CxchgNames, a \in SmallU8Vals, b \in SmallU8Vals, old \in SmallU8Vals }
    \cup { IntrinsicCall(n, "u8", <<ThePtr, a>>, old) :
             n \in XchgNames \cup StoreNames \cup AtomicOpNames \cup {"move_val_init"},
             a \in SmallU8Vals, old \in SmallU8Vals }
    \cup { IntrinsicCall(n, "u8", <<p>>, old) :
             n \in LoadNames, p \in {ThePtr, DanglingPtr}, old \in SmallU8Vals }
    \cup { IntrinsicCall(n, "u8", <<DanglingPtr, a>>, old) :
             n \in StoreNames \cup XchgNames, a \in SmallU8Vals, old \in SmallU8Vals }
    \cup { IntrinsicCall(n, "u8", <<ThePtr, DanglingPtr, Bytes(U128(2))>>, old) :
             n \in CopyNames, old \in SmallU8Vals }
    \cup { IntrinsicCall("assume", "bool", <<b>>, Undef) : b \in BytesOfTy("bool") }
    \cup { IntrinsicCall("write_bytes", "u8", <<p, Bytes(U128(7)), Bytes(U128(c))>>, old) :
             p \in {ThePtr, DanglingPtr}, c \in {0, 2}, old \in SmallU8Vals }
    \cup { IntrinsicCall(n, "u8", <<ThePtr, ThePtr, Bytes(U128(c))>>, old) :
             n \in CopyNames, c \in {0, 2}, old \in SmallU8Vals }
    \cup { IntrinsicCall(n, "u8", <<v>>, old) :
             n \in {"align_offset", "arith_offset", "atomic_fence_acq", "breakpoint",
                    "init", "offset", "transmute", "uninit"}
                   \cup FloatMathNames \cup FastMathNames \cup NoOpNames \cup LayoutNames
                   \cup OtherNames,
             v \in SmallU8Vals, old \in SmallU8Vals }

IntrinsicInit ==
    /\ Idle
    /\ \/ \E ty \in IntTys \cup UintTys : op \in NumericCalls(ty)
       \/ op \in IntrinsicCalls

\* call_intrinsic(instance, args, dest, dest_ty, dest_layout, target)
CallIntrinsic ==
    /\ op.stage = "input"
    /\ op' = [op EXCEPT !.stage = "called",
                        !.r1 = call_intrinsic(op.cx, op.name, op.ty, op.arg_vals, op.target)]
    /\ UNCHANGED <<queue, pc, mode, calls, enq, deq, last>>

\* the numeric intrinsic called again on the value it wrote
CallIntrinsicAgain ==
    /\ op.stage = "called" /\ op.r1.res = "Ok" /\ op.name \in NumericNames
    /\ op' = [op EXCEPT !.stage = "again",
                        !.r2 = call_intrinsic(op.r1.cx, op.name, op.ty,
                                              <<op.r1.cx.dest>>, op.target + 1)]
    /\ UNCHANGED <<queue, pc, mode, calls, enq, deq, last>>

\* a satisfying assignment requested after a call that recorded a relation
\* on one symbolic byte
IntrinsicSolve ==
    /\ op.stage = "called" /\ op.r1.res = "Ok" /\ op.r1.cx.cons # <<>>
    /\ Cardinality(InputCellsOf(op.arg_vals[1])) = 1
    /\ \E input \in [InputCellsOf(op.arg_vals[1]) -> OverflowBytes] :
         op' = [op EXCEPT !.stage = "solved", !.input = input,
                          !.model = Materialize(op.r1.cx.dest,
                                                get_satisfying_values(op.r1.cx.cons, input))]
    /\ UNCHANGED <<queue, pc, mode, calls, enq, deq, last>>

IntrinsicNext ==
    \/ CallIntrinsic
    \/ CallIntrinsicAgain
    \/ IntrinsicSolve

IntrinsicSpec == IntrinsicInit /\ [][IntrinsicNext]_vars

\* ------------------------------------------------------ properties of casts
IsIntTy(ty) == ty \in IntTys \cup UintTys
ByteWidth(ty) == num_bytes(ty_to_primval_kind(ty))
SameSignedness(a, b) == (a \in IntTys /\ b \in IntTys) \/ (a \in UintTys /\ b \in UintTys)

\* The native conversion `v as T2 as T1` of a T1 value v, T2 no wider than T1
\* and of T1's signedness, as T1 values are held: the low bytes of T2's width
\* kept, every higher bit the sign bit of the T2 value (signed) or zero.
NativeRoundTrip(v, ty1, ty2) ==
    [i \in 1..U128Bytes |->
        IF i <= ByteWidth(ty2) THEN v[i]
        ELSE IF ty1 \in IntTys /\ v[ByteWidth(ty2)] >= 128 THEN 255 ELSE 0]

C11_Case ==
    /\ op.stage = "back" /\ op.val.tag = "Bytes"
    /\ SameSignedness(op.src_ty, op.dest_ty)
    /\ ByteWidth(op.src_ty) >= ByteWidth(op.dest_ty)

\* C11: a concrete integer of width w1 cast down to a width w2 <= w1 of the
\* same signedness and back up to w1 is the low w2 bits of the value,
\* sign-extended (signed) or zero-extended (unsigned), bit for bit what the
\* native fixed-width conversion gives.
C11_CastRoundTrip ==
    C11_Case =>
        /\ op.r1.res = "Ok" /\ op.r2.res = "Ok"
        /\ op.r2.val = Bytes(NativeRoundTrip(op.val.data, op.src_ty, op.dest_ty))

\* a 32-bit signed value whose low byte is negative as an i8 and which the
\* round trip changes
C11_Witness ==
    /\ C11_Case
    /\ op.src_ty = "i32" /\ op.dest_ty = "i8"
    /\ op.val.data[1] >= 128 /\ op.val.data[2] = 1
    /\ op.r2.val.data[4] = 255
    /\ op.r2.val # op.val

IsIntOrCharTy(ty) == IsIntTy(ty) \/ ty = "char"
Min(a, b) == IF a <= b THEN a ELSE b

C12_Case ==
    /\ op.stage = "cast" /\ op.val.tag = "Abstract"
    /\ IsIntOrCharTy(op.src_ty) /\ IsIntOrCharTy(op.dest_ty)

\* C12: an abstract int/char -> int/char cast from a source of s bytes to a
\* destination of d bytes returns an abstract value of d cells, whose low
\* min(s, d) cells are the source's, whose cells from s up to d are concrete
\* zero bytes, and adds no constraint.
C12_AbstractCastCells ==
    C12_Case =>
        LET s == ByteWidth(op.src_ty)
            d == ByteWidth(op.dest_ty)
        IN  /\ op.r1.res = "Ok" /\ op.r1.val.tag = "Abstract"
            /\ Len(op.r1.val.data) = d
            /\ \A i \in 1..Min(s, d) : op.r1.val.data[i] = op.val.data[i]
            /\ \A i \in (s + 1)..d : op.r1.val.data[i] = 0
            /\ op.r1.cons = <<>>

C13_Case ==
    /\ op.stage \in {"cast", "solved"} /\ op.val.tag = "Abstract"
    /\ op.src_ty = "bool" /\ IsIntTy(op.dest_ty)

\* C13: casting a symbolic boolean b to an integer type records exactly one
\* ternary-select relation on b with then-value 1 and else-value 0 and
\* returns the value that relation defines, none of whose cells is a cell of
\* b or a concrete byte; every satisfying assignment with b true gives the
\* result 1 and every one with b false gives 0.
C13_BoolToIntSelect ==
    C13_Case =>
        /\ op.r1.res = "Ok" /\ op.r1.val.tag = "Abstract"
        /\ Len(op.r1.cons) = 1
        /\ op.r1.cons[1].kind = "ite"
        /\ op.r1.cons[1].cond = op.val.data
        /\ op.r1.cons[1].then_val = U128(1)
        /\ op.r1.cons[1].else_val = U128(0)
        /\ op.r1.val.data = op.r1.cons[1].result
        /\ \A j \in 1..Len(op.r1.val.data) :
              /\ op.r1.val.data[j] < 0
              /\ op.r1.val.data[j] \notin InputCellsOf(op.val)
        /\ op.stage = "solved" =>
              op.model = [j \in 1..ByteWidth(op.dest_ty) |->
                            IF j = 1 /\ Holds(op.val.data, op.input) THEN 1 ELSE 0]

\* b true under the assignment, and the 32-bit result is 1
C13_Witness ==
    /\ C13_Case /\ op.stage = "solved" /\ op.dest_ty = "u32"
    /\ Holds(op.val.data, op.input)
    /\ op.model = <<1, 0, 0, 0>>

C14_Case == op.stage = "cast" /\ op.val.tag = "Ptr"

\* C14: casting a Pointer never yields a Concrete or an Abstract value: to a
\* raw pointer type or to isize/usize it returns a Pointer of the same region,
\* to any other integer type it fails with ReadPointerAsBytes, to any other
\* destination it fails with an error.
C14_PointerCast ==
    C14_Case =>
        /\ op.r1.res = "Ok" => op.r1.val.tag = "Ptr"
        /\ op.dest_ty \in {"rawptr", "isize", "usize"} =>
              /\ op.r1.res = "Ok" /\ op.r1.val.tag = "Ptr"
              /\ op.r1.val.data[1] = op.val.data[1]
        /\ (IsIntTy(op.dest_ty) /\ op.dest_ty \notin {"isize", "usize"}) =>
              op.r1.res = "Err" /\ op.r1.err = "ReadPointerAsBytes"
        /\ (~IsIntTy(op.dest_ty) /\ op.dest_ty # "rawptr") => op.r1.res = "Err"

\* a pointer into region 2 at a non-zero offset cast to usize: still that pointer
C14_Witness ==
    /\ C14_Case /\ op.dest_ty = "usize"
    /\ op.val = Ptr(2, 8)
    /\ op.r1.res = "Ok" /\ op.r1.val = Ptr(2, 8)

C15_Case ==
    /\ op.stage = "cast" /\ op.val.tag = "Bytes"
    /\ IsIntOrCharTy(op.src_ty) /\ op.dest_ty = "char"

\* the value, as the u128 it is held as, is one of 0..255
FitsEightBits(v) == \A i \in 2..U128Bytes : v[i] = 0

\* C15: a concrete integer or character cast to the character type returns
\* the value unchanged exactly when it fits in 8 bits (0..255) and otherwise
\* fails with InvalidChar carrying that value; every negative value of a
\* signed source fails.
C15_CharCast ==
    C15_Case =>
        /\ FitsEightBits(op.val.data) => op.r1.res = "Ok" /\ op.r1.val = op.val
        /\ ~FitsEightBits(op.val.data) =>
              /\ op.r1.res = "Err" /\ op.r1.err = "InvalidChar"
              /\ op.r1.arg = op.val.data
        /\ (op.src_ty \in IntTys /\ op.val.data[U128Bytes] >= 128) =>
              op.r1.res = "Err" /\ op.r1.err = "InvalidChar"

\* -1i8 cast to char fails, carrying the value as it is held
C15_Witness ==
    /\ C15_Case /\ op.src_ty = "i8"
    /\ op.val.data = [i \in 1..U128Bytes |-> 255]
    /\ op.r1.err = "InvalidChar" /\ op.r1.arg = op.val.data

\* ------------------------------------------------- properties of intrinsics
C16_Case ==
    /\ op.stage \in {"called", "again"} /\ op.name = "bswap"
    /\ op.arg_vals[1].tag \in {"Bytes", "Abstract"}

\* C16: for every concrete or abstract value v of every integer kind,
\* bswap(bswap(v)) is v: cell for cell when abstract, the same stored bit
\* pattern when concrete.
C16_BswapInvolution ==
    C16_Case =>
        /\ op.r1.res = "Ok"
        /\ op.stage = "again" => op.r2.res = "Ok" /\ op.r2.cx.dest = op.arg_vals[1]

\* the byte a satisfying assignment gives the symbolic operand, and the
\* concrete operand
SolvedX == op.input[InputCell(1)]
SolvedC == op.arg_vals[2].data[1]

C17_Case ==
    /\ op.stage = "solved" /\ op.name = "add_with_overflow"
    /\ op.arg_vals[1] = SymbolicU8 /\ op.arg_vals[2].tag = "Bytes"

C18_Case ==
    /\ op.stage = "called" /\ op.name \in {"cttz_nonzero", "ctlz_nonzero"}
    /\ op.arg_vals[1].tag = "Bytes"

\* the intrinsic that counts the same zeros without the precondition
C18_Plain == IF op.name = "cttz_nonzero" THEN "cttz" ELSE "ctlz"

\* C18: cttz_nonzero and ctlz_nonzero called on a concrete zero operand fail
\* with an intrinsic-misuse error naming the intrinsic, without writing the
\* destination or advancing to the target block; on a nonzero operand they
\* write the same count as cttz / ctlz and go to the target.
C18_NonzeroIntrinsics ==
    C18_Case =>
        IF op.arg_vals[1] = Bytes(U128(0))
          THEN /\ op.r1.res = "Err" /\ op.r1.err = "Intrinsic"
               /\ op.r1.arg = op.name \o " called on 0"
               /\ op.r1.cx = op.cx
               /\ op.r1.cx.writes = <<>> /\ op.r1.cx.block # op.target
          ELSE /\ op.r1.res = "Ok"
               /\ op.r1.cx = call_intrinsic(op.cx, C18_Plain, op.ty, op.arg_vals,
                                            op.target).cx
               /\ op.r1.cx.writes = <<"dest">> /\ op.r1.cx.block = op.target
               /\ op.r1.cx.dest =
                    Bytes(U128(IF op.name = "cttz_nonzero"
                                 THEN trailing_zeros(op.arg_vals[1].data, ByteWidth(op.ty))
                                 ELSE leading_zeros(op.arg_vals[1].data, ByteWidth(op.ty))))

\* ctlz_nonzero::<u16>(0) failed
C18_Witness ==
    /\ C18_Case /\ op.name = "ctlz_nonzero" /\ op.ty = "u16"
    /\ op.arg_vals[1] = Bytes(U128(0))
    /\ op.r1.res = "Err" /\ op.r1.arg = "ctlz_nonzero called on 0"

\* cttz_nonzero::<i16>(256) wrote 8
C18_WitnessNonzero ==
    /\ C18_Case /\ op.name = "cttz_nonzero" /\ op.ty = "i16"
    /\ op.arg_vals[1] = Bytes(ZeroExtend(<<0, 1>> \o [i \in 1..14 |-> 0], 2))
    /\ op.r1.cx.dest = Bytes(U128(8))

\* the no-ops the catalogue names: the branch-prediction hints, forget and the
\* acquire fence
Whitelist == NoOpNames \cup {"atomic_fence_acq"}

C19_Case == op.stage = "called"

\* the call left the location, the destination and the store as they were
C19_Unchanged ==
    /\ op.r1.cx.loc = op.cx.loc
    /\ op.r1.cx.dest = op.cx.dest
    /\ op.r1.cx.cons = op.cx.cons

\* the call wrote no place and recorded no relation
C19_NoWrite ==
    /\ op.r1.cx.writes = <<>>
    /\ op.r1.cx.cons = op.cx.cons

\* a name without an arm fails with "unimplemented intrinsic: <name>" and
\* leaves the frame as it was
C19_DefaultArm ==
    op.name \in OtherNames =>
        /\ op.r1.res = "Err" /\ op.r1.err = "Unimplemented"
        /\ op.r1.arg = "unimplemented intrinsic: " \o op.name
        /\ op.r1.cx = op.cx

C19_WitnessAssume ==
    /\ C19_Case /\ op.name = "assume" /\ op.arg_vals[1] = Bytes(U128(1))
    /\ op.r1.res = "Ok" /\ C19_NoWrite /\ op.r1.cx.block = op.target

C20_Case ==
    /\ op.stage = "called" /\ starts_with(op.name, "atomic_cxchg")
    /\ op.cx.loc.tag = "Bytes"
    /\ op.arg_vals[2].tag = "Bytes" /\ op.arg_vals[3].tag = "Bytes"

\* C20: an atomic compare-exchange (any atomic_cxchg* name) on a location
\* holding old, with expected value e and new value n, writes the pair
\* (old, old == e) to the destination and stores n to the location only when
\* old == e; when old differs from e the location still holds old afterwards.
C20_CompareExchange ==
    C20_Case =>
        LET old == op.cx.loc
            e == op.arg_vals[2]
            n == op.arg_vals[3]
        IN  /\ op.r1.res = "Ok"
            /\ op.r1.cx.dest = Pair(old, FromBool(old = e))
            /\ op.r1.cx.loc = IF old = e THEN n ELSE old

\* ------------------------------------------- properties of the queue length
\* C21: a fork with k >= 1 outcomes removes the parent from the queue and
\* enqueues exactly k copies at the tail, consecutively and in outcome order,
\* and the parent itself is not in the queue again; per loop iteration the
\* queue length changes by k - 1 on a fork, by 0 on continue-without-fork, and
\* by -1 on done or error.
C21_QueueLength ==
    [][ deq' = deq + 1 =>
          LET k == Len(last'.branches)
              n == Len(queue)
          IN  /\ last'.arm = "fork" =>
                    /\ k >= 1
                    /\ Len(queue') = n + k - 1
                    /\ SubSeq(queue', 1, n - 1) = Tail(queue)
                    /\ \A i \in 1..k :
                          queue'[n - 1 + i] =
                              [ApplyOutcome(last'.after, last'.branches[i]).cx
                                  EXCEPT !.ticket = enq + i]
                    /\ \A j \in 1..Len(queue') : queue'[j].ticket # Head(queue).ticket
              /\ last'.arm = "continue" => Len(queue') = n
              /\ last'.arm \in {"done", "error"} => Len(queue') = n - 1
      ]_vars

\* ------------------------------------------ run on a program of finite paths
\* Every state reaches done or error after finitely many steps and produces
\* finitely many outcomes: the states queued can all be finished within the
\* steps the run has left. A step that continues or forks keeps it so.
PathsFinite == deq + Len(queue) <= MaxSteps

\* Ok((true, None)) of a state that has steps left
TermContinue == RunContinue /\ PathsFinite'

\* Ok((true, Some(branches))) of a state whose children have steps left
TermFork == RunFork /\ PathsFinite'

\* One iteration of `while let Some(mut ecx) = self.pop_eval_context()` on
\* such a program: every step returns, and returns continue, a fork with
\* outcomes, done or an error.
TermNext ==
    \/ TermContinue
    \/ TermFork
    \/ RunDone
    \/ RunError
    \/ RunExit

\* run is one sequential loop: it goes on to its next iteration for as long
\* as there is one.
TermSpec == Init /\ [][TermNext]_vars /\ WF_vars(TermNext)

\* the consumer has not returned false (none is installed in main mode)
NeverFalse == \A i \in 1..Len(calls) : calls[i].go_on

\* C22: if every state reaches done or error after finitely many steps and
\* produces finitely many fork outcomes, run terminates; when the consumer
\* never returns false (or none is installed) it has then an empty queue and
\* every state pushed has been stepped to its end.
C22_RunTerminates ==
    /\ <>(pc # "running")
    /\ []((pc # "running" /\ NeverFalse) =>
             (pc = "finished" /\ queue = <<>> /\ deq = enq))

\* ------------------------------------ properties of the intrinsic's control
C23_Case == op.stage = "called"

\* the calls the catalogue answers with an error: a name without an arm,
\* assume with a false condition, a nonzero variant on a concrete zero, an
\* access the memory check refuses
C23_ErrorCall ==
    \/ op.name \in OtherNames
    \/ op.name = "assume" /\ op.arg_vals[1] = Bytes(U128(0))
    \/ op.name \in {"cttz_nonzero", "ctlz_nonzero"} /\ op.arg_vals[1] = Bytes(U128(0))
    \/ /\ op.name \in LoadNames \cup StoreNames \cup XchgNames \cup CopyNames
       /\ \E j \in 1..Len(op.arg_vals) : op.arg_vals[j] = DanglingPtr
    \/ /\ op.name = "write_bytes" /\ op.arg_vals[1] = DanglingPtr
       /\ op.arg_vals[3] # Bytes(U128(0))

\* C23: call_intrinsic advances control to the target block exactly when the
\* intrinsic succeeds: a successful call is at the target afterwards, with its
\* effects done; an error return (unknown name, assume with a false condition,
\* the nonzero variants on zero, a failed memory check) leaves control at the
\* call, the target not entered.
C23_TargetOnSuccess ==
    C23_Case =>
        /\ op.cx.block # op.target
        /\ op.r1.res = "Ok" <=> op.r1.cx.block = op.target
        /\ op.r1.res # "Ok" => op.r1.cx.block = op.cx.block
        /\ C23_ErrorCall => op.r1.res = "Err"
        /\ op.r1.res = "Err" =>
              \/ C23_ErrorCall
              \/ op.name = "exact_div" /\ op.arg_vals[2] = Bytes(U128(0))

\* write_bytes through a dangling pointer failed the memory check and stayed
C23_Witness ==
    /\ C23_Case /\ op.name = "write_bytes" /\ op.arg_vals[1] = DanglingPtr
    /\ op.r1.res = "Err" /\ op.r1.cx.block = 0 /\ op.r1.cx.writes = <<>>

\* atomic_xchg wrote the destination and the location, then entered the target
C23_WitnessSuccess ==
    /\ C23_Case /\ op.name = "atomic_xchg"
    /\ op.r1.res = "Ok" /\ op.r1.cx.writes = <<"dest", "ptr">>
    /\ op.r1.cx.block = op.target

\* a numeric intrinsic called twice moved one block each time
C23_WitnessTwice ==
    /\ op.stage = "again" /\ op.r2.res = "Ok"
    /\ op.r1.cx.block = op.target /\ op.r2.cx.block = op.target + 1

====
